---- MODULE Spec2Model ----
(***************************************************************************)
(* Browser-side glue of BecaBot_UTPL:                                      *)
(*   - the partial loader / router of static/js/spa.js, with the page      *)
(*     initializers of static/js/admin.js                 (SpecNav)        *)
(*   - the chat session of static/js/chatbot.js           (SpecChat)       *)
(*   - its voice input                                    (SpecVoice)      *)
(*   - the content of one chat message                    (SpecRender)     *)
(* Every handler that the browser runs to completion (a DOM listener, a    *)
(* timer callback, the continuation of a settled fetch) is one action.     *)
(***************************************************************************)
EXTENDS Integers, Sequences, FiniteSets, TLC

VARIABLES
    \* ---- spa.js ----
    container,      \* #dynamic-content: [kind, url, by]
    pending,        \* fetches of loadPartial that have not settled
    issued,         \* number of loadPartial calls made so far
    entries,        \* window.history: the session history entries
    histIdx,        \* index of the current history entry
    activeNav,      \* hrefs of the sidebar links carrying class "active"
    handlers,       \* a[data-link] elements of the document -> click listeners
    navEvents,      \* number of spa:navigate events dispatched
    resizeTimers,   \* pending setTimeout(resize, 60) callbacks
    lastSettled,    \* the fetch that settled last, and how: [load, ok]
    spaNavigate,    \* the spa:navigate event the fetch that settled last has
                    \* dispatched, as its listeners saw the page; NoEvent if
                    \* it dispatched none
    inits,          \* page initializers invoked, in order, by the handler
                    \* that ran last of: DOMContentLoaded, a settled fetch
    \* ---- chatbot.js ----
    chatOpen,       \* chatBox.style.display === "flex"
    greeted,        \* let greeted
    greetTimers,    \* pending setTimeout(greeting, 300) callbacks
    messages,       \* children of #chatbot-messages, in document order
    input,          \* input.value
    sends,          \* fetches of /send-message/ that have not settled
    autoSubmits,    \* pending setTimeout(auto-submit, 500) callbacks
    sessionTimeout, \* let sessionTimeout: Null or a timer id
    timers,         \* pending inactivity timers: id -> minutes left
    sessionActive,  \* let sessionActive
    farewellDelays, \* handleSessionTimeout calls awaiting the 2 s delay
    clears,         \* handleSessionTimeout calls awaiting clearConversation
    idle,           \* minutes since the last user reset event; -1 once the
                    \* timeout fired and no reset event followed
    fires,          \* inactivity timers fired since the last timer reset
    greets,         \* greetings scheduled since page load or since the last
                    \* completed timeout sequence
    \* ---- chatbot.js, voice input ----
    recognizing,    \* let recognizing
    recognition,    \* the SpeechRecognition object: "none" where the browser
                    \* has no such capability, else "idle", "starting" (start
                    \* was called), "active" (onstart was delivered),
                    \* "stopping" (stop was called), "ending" (only onend is
                    \* still to come)
    alerts,         \* messages of the alert dialogs shown by the voice
                    \* handler that ran last
    uncaught,       \* an exception has left a voice handler uncaught
    \* ---- chatbot.js, addMessage and markdownToHtml on their own ----
    text,           \* a text, as the sequence of its lines
    sender,         \* sender of the message addMessage made of text; "" if
                    \* none was made yet
    html,           \* const htmlContent of that call
    content         \* child nodes of the message's content element

navVars == <<container, pending, issued, entries, histIdx, activeNav,
             handlers, navEvents, resizeTimers, lastSettled, spaNavigate,
             inits>>

chatVars == <<chatOpen, greeted, greetTimers, messages, input, sends,
              autoSubmits, sessionTimeout, timers, sessionActive,
              farewellDelays, clears, idle, fires, greets>>

voiceVars == <<recognizing, recognition, alerts, uncaught>>

renderVars == <<text, sender, html, content>>

vars == <<navVars, chatVars, voiceVars, renderVars>>

\* What the handlers of the router, of the chat and of message rendering
\* leave alone.
restOfNav == <<chatVars, voiceVars, renderVars>>
restOfChat == <<navVars, voiceVars, renderVars>>
restOfVoice == <<navVars, renderVars>>
restOfRender == <<navVars, chatVars, voiceVars>>

(***************************************************************************)
(* Bounds of the model.                                                    *)
(***************************************************************************)
MaxLoads == 3       \* loadPartial calls in one behaviour
MaxHist  == 3       \* history entries in one behaviour
MaxMsgs  == 4       \* children of #chatbot-messages
MaxSends == 2       \* /send-message/ fetches in flight
MaxLines == 4       \* lines of a text

(***************************************************************************)
(* spa.js                                                                  *)
(***************************************************************************)
Urls == {"/a", "/b", "/c"}

\* e.state is null or carries no url
NoUrl == ""

\* hrefs of the sidebar's a[data-link] .nav-link elements; one has no
\* target, and no link leads to "/c"
SidebarHrefs == {"/a", "/b", ""}

\* data-page of the partial served for url: a name admin.js knows, a name
\* it does not know, no [data-page] element at all
NoPage == ""
PageName(url) ==
    CASE url = "/a" -> "dashboard"
      [] url = "/b" -> "profile"
      [] OTHER -> NoPage

\* hrefs of the a[data-link] elements inside the partial served for url
PartialLinks(url) == IF url = "/a" THEN {"/b"} ELSE {}

SidebarLink(h) == <<"sidebar", h>>
ContentLink(h) == <<"content", h>>
SidebarLinks == {SidebarLink(h) : h \in SidebarHrefs}

Href(link) == link[2]

\* container.innerHTML = ... : the a[data-link] elements of the old content
\* leave the document, those of the new content enter it with no listener.
SwapContent(hs, newHrefs) ==
    [l \in SidebarLinks \cup {ContentLink(h) : h \in newHrefs} |->
        IF l \in SidebarLinks /\ l \in DOMAIN hs THEN hs[l] ELSE 0]

\* Mutant of initNavigationLinks: the links are not replaced by clones.
initNavigationLinks_NoClone(hs) == [l \in DOMAIN hs |-> hs[l] + 1]

\* initNavigationLinks: every a[data-link] is replaced by a clone (which has
\* no listeners), then every a[data-link] gets one click listener.
initNavigationLinks(hs) ==
    LET cloned == [l \in DOMAIN hs |-> 0]
    IN  [l \in DOMAIN cloned |-> cloned[l] + 1]

\* Mutant of setActiveNav: a link counts as matching when its href is a
\* prefix of url (so the link without href matches every url).
setActiveNav_PrefixMatch(url) ==
    {h \in SidebarHrefs : h = url \/ h = ""}

\* setActiveNav: "active" is removed from every sidebar link and added to
\* those whose href equals url.
setActiveNav(url) == {h \in SidebarHrefs : h = url}

\* window.history.pushState({url}, "", url): entries after the current one
\* are dropped, the new entry becomes current.
pushState(es, idx, url) ==
    Append(SubSeq(es, 1, idx), [url |-> url, path |-> url])

\* The first part of loadPartial(url, push), up to the fetch call: the
\* loading placeholder replaces the container's content, a fetch is issued.
loadPartial(url, push, src) ==
    /\ issued < MaxLoads
    /\ issued' = issued + 1
    /\ container' = [kind |-> "loading", url |-> NoUrl, by |-> issued + 1]
    /\ handlers' = SwapContent(handlers, {})
    /\ pending' = pending \cup
            {[id |-> issued + 1, url |-> url, push |-> push, src |-> src]}

\* Mutant of initPageContent: the cases of the switch have no break.
initPageContent_FallsThrough(c) ==
    IF c.kind # "content" \/ PageName(c.url) = NoPage
    THEN <<>>
    ELSE LET all == <<"initDashboard", "initCorpus", "initPDF",
                      "initMessages", "initScraping">>
             page == PageName(c.url)
         IN  CASE page = "dashboard" -> all
               [] page = "corpus"    -> SubSeq(all, 2, 5)
               [] page = "pdf"       -> SubSeq(all, 3, 5)
               [] page = "messages"  -> SubSeq(all, 4, 5)
               [] page = "scraping"  -> SubSeq(all, 5, 5)
               [] OTHER -> <<>>

\* admin.js initPageContent() on container content c: the initializers it
\* invokes, in order.
initPageContent(c) ==
    IF c.kind # "content" \/ PageName(c.url) = NoPage
    THEN <<>>
    ELSE LET page == PageName(c.url)
         IN  CASE page = "dashboard" -> <<"initDashboard">>
               [] page = "corpus"    -> <<"initCorpus">>
               [] page = "pdf"       -> <<"initPDF">>
               [] page = "messages"  -> <<"initMessages">>
               [] page = "scraping"  -> <<"initScraping">>
               [] OTHER -> <<>>

\* No spa:navigate was dispatched.
NoEvent == [url |-> NoUrl]

\* The page at one point of a handler, as far as the router changes it.
NavCur ==
    [container |-> container, entries |-> entries, histIdx |-> histIdx,
     activeNav |-> activeNav, handlers |-> handlers, navEvents |-> navEvents,
     resizeTimers |-> resizeTimers, spaNavigate |-> spaNavigate,
     inits |-> inits]

\* container.innerHTML = html, for the body fetched by load r
mount(s, r) ==
    [s EXCEPT !.container = [kind |-> "content", url |-> r.url, by |-> r.id],
              !.handlers = SwapContent(@, PartialLinks(r.url))]

\* Mutant of pushIfAsked: the entry is pushed whatever push is.
pushIfAsked_Always(s, r) ==
    [s EXCEPT !.entries = pushState(s.entries, s.histIdx, r.url),
              !.histIdx = @ + 1]

\* if (push) window.history.pushState({ url }, "", url)
pushIfAsked(s, r) ==
    IF r.push
    THEN [s EXCEPT !.entries = pushState(s.entries, s.histIdx, r.url),
                   !.histIdx = @ + 1]
    ELSE s

\* document.dispatchEvent(new CustomEvent("spa:navigate", {detail: {url}})):
\* the listeners run before dispatchEvent returns; the one of admin.js calls
\* initPageContent().  s0 is the page when the continuation started.
dispatchEvent(s, r, s0) ==
    [s EXCEPT !.navEvents = @ + 1,
              !.spaNavigate =
                  [url |-> r.url,
                   container |-> s.container,
                   entry |-> s.entries[s.histIdx],
                   histIdx |-> s.histIdx,
                   activeNav |-> s.activeNav,
                   handlers |-> s.handlers,
                   resizeScheduled |-> s.resizeTimers # s0.resizeTimers],
              !.inits = initPageContent(s.container)]

\* setTimeout(() => window.dispatchEvent(new Event("resize")), 60)
scheduleResize(s) == [s EXCEPT !.resizeTimers = @ + 1]

\* Mutant of onLoaded: the event is dispatched right after the body is
\* mounted, before the history push, the active link and the re-bind.
onLoaded_EventFirst(s, r) ==
    LET s1 == dispatchEvent(mount(s, r), r, s)
        s2 == pushIfAsked(s1, r)
        s3 == [s2 EXCEPT !.activeNav = setActiveNav(r.url)]
        s4 == [s3 EXCEPT !.handlers = initNavigationLinks(@)]
    IN  scheduleResize(s4)

\* The .then(html => ...) continuation of load r, statement by statement.
onLoaded(s, r) ==
    LET s1 == mount(s, r)
        s2 == pushIfAsked(s1, r)
        s3 == [s2 EXCEPT !.activeNav = setActiveNav(r.url)]
        s4 == [s3 EXCEPT !.handlers = initNavigationLinks(@)]
        s5 == dispatchEvent(s4, r, s)
    IN  scheduleResize(s5)

\* No fetch has settled yet.
NoneSettled == [load |-> [id |-> 0, url |-> NoUrl, push |-> FALSE, src |-> "none"],
                ok |-> TRUE]

\* State after the DOMContentLoaded listener on a page at currentUrl: the
\* server rendered the page's content, or it left the container empty and
\* the listener loads currentUrl.
StartNav(currentUrl, rendered) ==
    /\ entries = <<[url |-> currentUrl, path |-> currentUrl]>>
    /\ histIdx = 1
    /\ activeNav = {}
    /\ navEvents = 0
    /\ resizeTimers = 0
    /\ lastSettled = NoneSettled
    /\ spaNavigate = NoEvent
    /\ IF rendered
       THEN /\ container = [kind |-> "content", url |-> currentUrl, by |-> 0]
            /\ inits = initPageContent(container)
            /\ pending = {}
            /\ issued = 0
            /\ handlers = initNavigationLinks(
                             SwapContent(<<>>, PartialLinks(currentUrl)))
       ELSE /\ container = [kind |-> "loading", url |-> NoUrl, by |-> 1]
            /\ pending = {[id |-> 1, url |-> currentUrl, push |-> FALSE,
                           src |-> "initial"]}
            /\ issued = 1
            /\ handlers = initNavigationLinks(SwapContent(<<>>, {}))
            /\ inits = initPageContent(container)

\* Click on an a[data-link] that has n >= 1 click listeners: each of them
\* reads the href and, if it is non-empty, calls loadPartial(url, true), one
\* call after the other.  (A link with no listener is followed by the
\* browser: the document is left.)
LinkClick(link) ==
    /\ link \in DOMAIN handlers
    /\ handlers[link] >= 1
    /\ LET n == handlers[link]
       IN  IF Href(link) = ""
           THEN UNCHANGED <<container, pending, issued, handlers>>
           ELSE IF n = 1
           THEN loadPartial(Href(link), TRUE, "click")
           ELSE /\ issued + n <= MaxLoads
                /\ issued' = issued + n
                /\ container' = [kind |-> "loading", url |-> NoUrl,
                                 by |-> issued + n]
                /\ handlers' = SwapContent(handlers, {})
                /\ pending' = pending \cup
                      {[id |-> issued + k, url |-> Href(link), push |-> TRUE,
                        src |-> "click"] : k \in 1..n}
    /\ UNCHANGED <<entries, histIdx, activeNav, navEvents, resizeTimers,
                   lastSettled, spaNavigate, inits>>
    /\ UNCHANGED restOfNav

\* Mutant of PopstateUrl: the fallback to the location path is forgotten.
PopstateUrl_StateOnly(e) == e.url

\* The url the popstate listener loads for entry e: e.state.url when the
\* state carries one, window.location.pathname otherwise.
PopstateUrl(e) == IF e.url # NoUrl THEN e.url ELSE e.path

\* popstate listener: the browser has made entry j current.
Popstate(j) ==
    /\ j \in 1..Len(entries)
    /\ j # histIdx
    /\ histIdx' = j
    /\ loadPartial(PopstateUrl(entries[j]), FALSE, "popstate")
    /\ UNCHANGED <<entries, activeNav, navEvents, resizeTimers, lastSettled,
                   spaNavigate, inits>>
    /\ UNCHANGED restOfNav

\* An entry whose state carries no url: a fragment navigation or another
\* script's pushState on the same document; the path stays the same.
ForeignEntry ==
    /\ Len(entries) < MaxHist
    /\ entries' = Append(SubSeq(entries, 1, histIdx),
                         [url |-> NoUrl, path |-> entries[histIdx].path])
    /\ histIdx' = histIdx + 1
    /\ UNCHANGED <<container, pending, issued, activeNav, handlers,
                   navEvents, resizeTimers, lastSettled, spaNavigate, inits>>
    /\ UNCHANGED restOfNav

\* The fetch of load r answered 2xx: the .then(html => ...) continuation.
LoadOk(r) ==
    /\ r \in pending
    /\ pending' = pending \ {r}
    /\ lastSettled' = [load |-> r, ok |-> TRUE]
    /\ \E s \in {onLoaded(NavCur, r)} :
           /\ container' = s.container
           /\ entries' = s.entries
           /\ histIdx' = s.histIdx
           /\ activeNav' = s.activeNav
           /\ handlers' = s.handlers
           /\ navEvents' = s.navEvents
           /\ resizeTimers' = s.resizeTimers
           /\ spaNavigate' = s.spaNavigate
           /\ inits' = s.inits
    /\ UNCHANGED issued
    /\ UNCHANGED restOfNav

\* Mutant of ErrorPanel: the body of a non-2xx answer is mounted.
ErrorPanel_MountsBody(r) == [kind |-> "content", url |-> r.url, by |-> r.id]

\* The alert panel the .catch continuation of load r puts in the container.
ErrorPanel(r) == [kind |-> "error", url |-> NoUrl, by |-> r.id]

\* The fetch of load r answered non-2xx or failed in transport: .catch.
LoadFail(r) ==
    /\ r \in pending
    /\ pending' = pending \ {r}
    /\ lastSettled' = [load |-> r, ok |-> FALSE]
    /\ container' = ErrorPanel(r)
    /\ handlers' = SwapContent(handlers, {})
    /\ spaNavigate' = NoEvent
    /\ inits' = <<>>
    /\ UNCHANGED <<issued, entries, histIdx, activeNav, navEvents, resizeTimers>>
    /\ UNCHANGED restOfNav

\* The 60 ms timer of a successful load: window gets a resize event.
ResizeFire ==
    /\ resizeTimers > 0
    /\ resizeTimers' = resizeTimers - 1
    /\ UNCHANGED <<container, pending, issued, entries, histIdx, activeNav,
                   handlers, navEvents, lastSettled, spaNavigate, inits>>
    /\ UNCHANGED restOfNav

NextNav ==
    \/ \E l \in SidebarLinks \cup {ContentLink(h) : h \in Urls} : LinkClick(l)
    \/ \E j \in 1..(MaxHist + MaxLoads) : Popstate(j)
    \/ ForeignEntry
    \/ \E r \in pending : LoadOk(r)
    \/ \E r \in pending : LoadFail(r)
    \/ ResizeFire

(***************************************************************************)
(* chatbot.js                                                              *)
(*                                                                         *)
(* Time advances in minutes (Tick).  The short timers (300 ms greeting,    *)
(* 500 ms auto-submit, 2 s farewell delay) and an inactivity timer that is *)
(* due run before the next minute passes; fetches settle at any time.      *)
(***************************************************************************)

\* const INACTIVITY_TIMEOUT = 2 * 60 * 1000, in minutes
INACTIVITY_TIMEOUT == 2

\* let sessionTimeout = null
Null == 0

\* values of input.value: empty, whitespace only, a text
InputVals == {"", " ", "a"}

\* Mutant of Trim: nothing is trimmed.
Trim_Keep(s) == s

\* String.prototype.trim on the values of InputVals
Trim(s) == IF s = " " THEN "" ELSE s

\* The chat state as one record, so that listeners compose as functions.
Cur ==
    [chatOpen |-> chatOpen, greeted |-> greeted, greetTimers |-> greetTimers,
     messages |-> messages, input |-> input, sends |-> sends,
     autoSubmits |-> autoSubmits, sessionTimeout |-> sessionTimeout,
     timers |-> timers, sessionActive |-> sessionActive,
     farewellDelays |-> farewellDelays, clears |-> clears,
     idle |-> idle, fires |-> fires, greets |-> greets]

SetChat(c) ==
    /\ chatOpen' = c.chatOpen
    /\ greeted' = c.greeted
    /\ greetTimers' = c.greetTimers
    /\ messages' = c.messages
    /\ input' = c.input
    /\ sends' = c.sends
    /\ autoSubmits' = c.autoSubmits
    /\ sessionTimeout' = c.sessionTimeout
    /\ timers' = c.timers
    /\ sessionActive' = c.sessionActive
    /\ farewellDelays' = c.farewellDelays
    /\ clears' = c.clears
    /\ idle' = c.idle
    /\ fires' = c.fires
    /\ greets' = c.greets

\* A handler that changes the chat state only.
Commit(c) == SetChat(c) /\ UNCHANGED restOfChat

\* A user event that the claims count as a reset of the inactivity window.
UserActivity(c) == [c EXCEPT !.idle = 0]

\* clearTimeout(h): the timer h, if still pending, is cancelled.
clearTimeout(ts, h) == [i \in DOMAIN ts \ {h} |-> ts[i]]

\* The id setTimeout returns: one that no pending timer has.
NewTimerId(ts) == CHOOSE i \in 1..(Cardinality(DOMAIN ts) + 1) : i \notin DOMAIN ts

\* setTimeout(handleSessionTimeout, INACTIVITY_TIMEOUT) under id
setTimeout(ts, id) ==
    [i \in DOMAIN ts \cup {id} |-> IF i = id THEN INACTIVITY_TIMEOUT ELSE ts[i]]

\* Mutant of resetInactivityTimer: the previous timer is not cleared.
resetInactivityTimer_NoClear(c) ==
    IF c.sessionActive
    THEN [c EXCEPT !.timers = setTimeout(c.timers, NewTimerId(c.timers)),
                   !.sessionTimeout = NewTimerId(c.timers),
                   !.fires = 0]
    ELSE [c EXCEPT !.fires = 0]

\* Mutant of resetInactivityTimer: the new timer is started whether or not
\* the session is active.
resetInactivityTimer_IgnoresSession(c) ==
    LET cleared == IF c.sessionTimeout # Null
                   THEN clearTimeout(c.timers, c.sessionTimeout)
                   ELSE c.timers
    IN  [c EXCEPT !.timers = setTimeout(cleared, NewTimerId(cleared)),
                  !.sessionTimeout = NewTimerId(cleared),
                  !.fires = 0]

\* resetInactivityTimer()
resetInactivityTimer(c) ==
    LET cleared == IF c.sessionTimeout # Null
                   THEN clearTimeout(c.timers, c.sessionTimeout)
                   ELSE c.timers
    IN  IF c.sessionActive
        THEN [c EXCEPT !.timers = setTimeout(cleared, NewTimerId(cleared)),
                       !.sessionTimeout = NewTimerId(cleared),
                       !.fires = 0]
        ELSE [c EXCEPT !.timers = cleared, !.fires = 0]

\* addMessage(text, sender): one .message-wrapper is appended
addMessage(c, kind) == [c EXCEPT !.messages = Append(@, kind)]

\* showTypingIndicator(): a .message-wrapper.typing-indicator is appended
showTypingIndicator(c) == [c EXCEPT !.messages = Append(@, "typing")]

\* Mutant of removeTypingIndicator: nothing is removed.
removeTypingIndicator_Keeps(c) == c

\* removeTypingIndicator(): getElementById finds the first indicator of the
\* document; it is removed.
removeTypingIndicator(c) ==
    LET ms == c.messages
        at == {i \in 1..Len(ms) : ms[i] = "typing"}
    IN  IF at = {} THEN c
        ELSE LET i == CHOOSE k \in at : \A j \in at : k <= j
             IN  [c EXCEPT !.messages = SubSeq(ms, 1, i - 1) \o
                                        SubSeq(ms, i + 1, Len(ms))]

\* Mutant of ToggleListener: greeted is not set after scheduling a greeting.
ToggleListener_NoGreetedFlag(c) ==
    IF c.chatOpen
    THEN [c EXCEPT !.chatOpen = FALSE]
    ELSE IF ~c.greeted
         THEN [c EXCEPT !.chatOpen = TRUE,
                        !.greetTimers = @ + 1,
                        !.greets = @ + 1]
         ELSE [c EXCEPT !.chatOpen = TRUE]

\* First click listener of chatBtn: toggles the box, schedules the greeting.
ToggleListener(c) ==
    IF c.chatOpen
    THEN [c EXCEPT !.chatOpen = FALSE]
    ELSE IF ~c.greeted
         THEN [c EXCEPT !.chatOpen = TRUE,
                        !.greetTimers = @ + 1,
                        !.greeted = TRUE,
                        !.greets = @ + 1]
         ELSE [c EXCEPT !.chatOpen = TRUE]

\* Second click listener of chatBtn: it reads the display that the first
\* listener has just set.
TimerListener(c) ==
    IF ~c.chatOpen
    THEN resetInactivityTimer(c)
    ELSE IF c.sessionTimeout # Null
         THEN [c EXCEPT !.timers = clearTimeout(@, c.sessionTimeout)]
         ELSE c

\* Listeners of monitorUserActivity: if (sessionActive) resetInactivityTimer()
MonitorListener(c) == IF c.sessionActive THEN resetInactivityTimer(c) ELSE c

\* sendMessage(), up to the await of fetch
sendMessage(c) ==
    IF Trim(c.input) = ""
    THEN c
    ELSE LET c1 == resetInactivityTimer(c)
             c2 == addMessage(c1, "user")
             c3 == [c2 EXCEPT !.input = ""]
             c4 == showTypingIndicator(c3)
         IN  [c4 EXCEPT !.sends = @ + 1, !.idle = 0]

\* Number of typing indicators among the children ms.
Typing(ms) == Cardinality({i \in 1..Len(ms) : ms[i] = "typing"})

\* Children that #chatbot-messages has or is still to get from what is
\* already under way: a pending greeting, a pending auto-submit (a user
\* message and its typing indicator), the answer to a send in flight whose
\* typing indicator is gone.
Claimed(c) ==
    Len(c.messages) + c.greetTimers + 2 * c.autoSubmits
    + (IF c.sends > Typing(c.messages) THEN c.sends - Typing(c.messages) ELSE 0)

\* The bound MaxMsgs leaves room for n more children.
Room(c, n) == Claimed(c) + n <= MaxMsgs

\* The bounds leave room for one more submit.
RoomForSubmit(c) == Room(c, 2) /\ c.sends + c.autoSubmits < MaxSends

\* The bounds leave room for what sendMessage(c) appends and sends.
RoomToSend(c) == Trim(c.input) # "" => RoomForSubmit(c)

\* clearConversation() when data.success: every .message-wrapper but the
\* last one is removed.
KeepLast(ms) == IF Len(ms) = 0 THEN ms ELSE <<ms[Len(ms)]>>

\* The chat state when the script has been evaluated.
InitialChat ==
    [chatOpen |-> FALSE, greeted |-> FALSE, greetTimers |-> 0,
     messages |-> <<>>, input |-> "", sends |-> 0, autoSubmits |-> 0,
     sessionTimeout |-> Null, timers |-> <<>>, sessionActive |-> TRUE,
     farewellDelays |-> 0, clears |-> 0, idle |-> 0, fires |-> 0, greets |-> 0]

StartChat(c) ==
    /\ chatOpen = c.chatOpen
    /\ greeted = c.greeted
    /\ greetTimers = c.greetTimers
    /\ messages = c.messages
    /\ input = c.input
    /\ sends = c.sends
    /\ autoSubmits = c.autoSubmits
    /\ sessionTimeout = c.sessionTimeout
    /\ timers = c.timers
    /\ sessionActive = c.sessionActive
    /\ farewellDelays = c.farewellDelays
    /\ clears = c.clears
    /\ idle = c.idle
    /\ fires = c.fires
    /\ greets = c.greets

\* Click on #chatbot-btn: both listeners run, in registration order.
ChatBtnClick ==
    LET c1 == ToggleListener(Cur)
        c2 == TimerListener(c1)
    IN  /\ Room(Cur, c1.greetTimers - greetTimers)
        /\ Commit(IF c2.chatOpen THEN UserActivity(c2) ELSE c2)

\* Click on #chatbot-close.  Whether the click also reaches the click
\* listener of #chatbot-box depends on the page's markup.
CloseBtnClick ==
    /\ chatOpen
    /\ \E bubbles \in BOOLEAN :
          LET c1 == [Cur EXCEPT !.chatOpen = FALSE]
          IN  Commit(IF bubbles THEN MonitorListener(c1) ELSE c1)

\* Click somewhere inside #chatbot-box.
ChatBoxClick ==
    /\ chatOpen
    /\ Commit(UserActivity(MonitorListener(Cur)))

\* The user edits the input field: 'input' event.
InputEvent(v) ==
    /\ chatOpen
    /\ v # input
    /\ Commit(UserActivity(MonitorListener([Cur EXCEPT !.input = v])))

\* Click on #chatbot-send: sendMessage, then the monitor's listener.
SendBtnClick ==
    /\ chatOpen
    /\ RoomToSend(Cur)
    /\ Commit(UserActivity(MonitorListener(sendMessage(Cur))))

\* Enter in the input field: keypress listener.
EnterKey ==
    /\ chatOpen
    /\ RoomToSend(Cur)
    /\ Commit(UserActivity(sendMessage(Cur)))

\* recognition.onresult: an interim transcript fills the input; a final one
\* also schedules the auto-submit.
VoiceResult(final) ==
    /\ chatOpen
    /\ final => RoomForSubmit(Cur)
    /\ Commit([Cur EXCEPT !.input = "a",
                          !.autoSubmits = IF final THEN @ + 1 ELSE @])

\* The 500 ms auto-submit timer fires.
AutoSubmitFire ==
    /\ autoSubmits > 0
    /\ LET c1 == [Cur EXCEPT !.autoSubmits = @ - 1]
       IN  Commit(IF Trim(c1.input) # "" THEN sendMessage(c1) ELSE c1)

\* Mutant of BotMessage: every failure gets the backend-error message.
BotMessage_OneErrorText(outcome) ==
    IF outcome = "ok" THEN "reply" ELSE "error"

\* The bot message sendMessage appends for each way its fetch can settle:
\*   "ok"     data.success: data.response
\*   "error"  data.success is false: the warning with data.error
\*   "throw"  fetch rejected or response.json() failed: the catch block
BotMessage(outcome) ==
    CASE outcome = "ok" -> "reply"
      [] outcome = "error" -> "error"
      [] OTHER -> "connerror"

\* The /send-message/ fetch settled: the rest of sendMessage.
SendSettle(outcome) ==
    /\ sends > 0
    /\ LET c1 == removeTypingIndicator([Cur EXCEPT !.sends = @ - 1])
           c2 == addMessage(c1, BotMessage(outcome))
       IN  Commit(IF outcome = "ok" THEN resetInactivityTimer(c2) ELSE c2)

\* The 300 ms greeting timer fires.
GreetFire ==
    /\ greetTimers > 0
    /\ Commit(addMessage([Cur EXCEPT !.greetTimers = @ - 1], "greeting"))

\* The inactivity timer id fires: handleSessionTimeout up to its first await.
TimerFire(id) ==
    /\ id \in DOMAIN timers
    /\ timers[id] = 0
    /\ Room(Cur, 1)
    /\ LET c1 == [Cur EXCEPT !.timers = clearTimeout(@, id),
                             !.sessionActive = FALSE,
                             !.fires = @ + 1,
                             !.idle = -1]
       IN  Commit([addMessage(c1, "farewell") EXCEPT !.farewellDelays = @ + 1])

\* The 2 s delay of handleSessionTimeout is over: clearConversation is
\* called and issues the /clear-chat/ fetch.
FarewellDelayFire ==
    /\ farewellDelays > 0
    /\ Commit([Cur EXCEPT !.farewellDelays = @ - 1, !.clears = @ + 1])

\* Mutant of ClearSettle: the session is reset only when the clear did not
\* throw.
ClearSettle_NoResetAfterThrow(outcome) ==
    /\ clears > 0
    /\ Commit(IF outcome = "throw"
              THEN [Cur EXCEPT !.clears = @ - 1]
              ELSE [Cur EXCEPT !.clears = @ - 1,
                               !.messages = IF outcome = "ok" THEN KeepLast(@) ELSE @,
                               !.sessionActive = TRUE,
                               !.greeted = FALSE,
                               !.greets = 0])

\* The /clear-chat/ fetch settled: the rest of clearConversation and of
\* handleSessionTimeout.
\*   "ok"     data.success
\*   "error"  data.success is false
\*   "throw"  fetch rejected or response.json() failed
ClearSettle(outcome) ==
    /\ clears > 0
    /\ Commit([Cur EXCEPT !.clears = @ - 1,
                          !.messages = IF outcome = "ok" THEN KeepLast(@) ELSE @,
                          !.sessionActive = TRUE,
                          !.greeted = FALSE,
                          !.greets = 0])

\* One minute passes.
Tick ==
    /\ greetTimers = 0
    /\ autoSubmits = 0
    /\ farewellDelays = 0
    /\ \A id \in DOMAIN timers : timers[id] > 0
    /\ Commit([Cur EXCEPT !.timers = [id \in DOMAIN timers |-> timers[id] - 1],
                          !.idle = IF @ >= 0 /\ @ < INACTIVITY_TIMEOUT
                                   THEN @ + 1 ELSE @])

Outcomes == {"ok", "error", "throw"}

NextChat ==
    \/ ChatBtnClick
    \/ CloseBtnClick
    \/ ChatBoxClick
    \/ \E v \in InputVals : InputEvent(v)
    \/ SendBtnClick
    \/ EnterKey
    \/ \E final \in BOOLEAN : VoiceResult(final)
    \/ AutoSubmitFire
    \/ \E o \in Outcomes : SendSettle(o)
    \/ GreetFire
    \/ \E id \in DOMAIN timers : TimerFire(id)
    \/ FarewellDelayFire
    \/ \E o \in Outcomes : ClearSettle(o)
    \/ Tick

(***************************************************************************)
(* chatbot.js: voice input.  The SpeechRecognition object delivers onstart *)
(* after start(), then results, and at last onend; an error is followed by *)
(* onend only.  No minute passes while the user talks to the microphone.   *)
(***************************************************************************)

\* event.error of a SpeechRecognitionErrorEvent: the codes the switch names
\* and one that it does not
ErrorCodes == {"no-speech", "audio-capture", "not-allowed", "network",
               "aborted", "service-not-allowed"}

\* let errorMsg after the switch of recognition.onerror (for "aborted": when
\* the handler returns)
errorMsg(code) ==
    CASE code = "no-speech" -> <<"No se detecto ningun audio">>
      [] code = "audio-capture" -> <<"No se detecto microfono">>
      [] code = "not-allowed" -> <<"Permiso denegado">>
      [] code = "network" -> <<"Error de red">>
      [] code = "aborted" -> <<"Error en el reconocimiento de voz">>
      [] OTHER -> <<"Error: ", code>>

\* Mutant of onerrorAlerts: the handler does not return on "aborted" and the
\* alert is not guarded.
onerrorAlerts_AbortedToo(code) == <<errorMsg(code)>>

\* The alert dialogs recognition.onerror shows for an error code.
onerrorAlerts(code) ==
    IF code = "aborted" THEN <<>> ELSE <<errorMsg(code)>>

\* recognition.start(): InvalidStateError unless the object is idle
start(rec) ==
    IF rec = "idle"
    THEN [recognition |-> "starting", threw |-> FALSE]
    ELSE [recognition |-> rec, threw |-> TRUE]

\* recognition.stop(): no effect unless the object is recognizing
stop(rec) == IF rec = "active" THEN "stopping" ELSE rec

\* The voice state as one record.
VoiceCur ==
    [recognizing |-> recognizing, recognition |-> recognition,
     alerts |-> alerts, uncaught |-> uncaught]

\* Mutant of voiceBtnListener: start() is called outside a try block.
voiceBtnListener_NoTry(v) ==
    IF v.recognition = "none"
    THEN [v EXCEPT !.alerts = << <<"Tu navegador no soporta entrada de voz">> >>]
    ELSE IF v.recognizing
    THEN [v EXCEPT !.recognition = stop(@), !.alerts = <<>>]
    ELSE IF start(v.recognition).threw
    THEN [v EXCEPT !.uncaught = TRUE, !.alerts = <<>>]
    ELSE [v EXCEPT !.recognition = start(@).recognition, !.alerts = <<>>]

\* The click listener of voiceBtn.
voiceBtnListener(v) ==
    IF v.recognition = "none"
    THEN [v EXCEPT !.alerts = << <<"Tu navegador no soporta entrada de voz">> >>]
    ELSE IF v.recognizing
    THEN [v EXCEPT !.recognition = stop(@), !.alerts = <<>>]
    ELSE IF start(v.recognition).threw
    THEN [v EXCEPT !.alerts =
              << <<"No se pudo iniciar el reconocimiento de voz">> >>]
    ELSE [v EXCEPT !.recognition = start(@).recognition, !.alerts = <<>>]

StartVoice(supported) ==
    /\ recognizing = FALSE
    /\ recognition = IF supported THEN "idle" ELSE "none"
    /\ alerts = <<>>
    /\ uncaught = FALSE

\* Click on #chatbot-voice.  Whether the click also reaches the click
\* listener of #chatbot-box depends on the page's markup.
VoiceBtnClick ==
    /\ chatOpen
    /\ \E bubbles \in BOOLEAN :
          SetChat(IF bubbles THEN UserActivity(MonitorListener(Cur)) ELSE Cur)
    /\ \E v \in {voiceBtnListener(VoiceCur)} :
          /\ recognizing' = v.recognizing
          /\ recognition' = v.recognition
          /\ alerts' = v.alerts
          /\ uncaught' = v.uncaught
    /\ UNCHANGED restOfVoice

\* recognition.onstart
RecStart ==
    /\ recognition = "starting"
    /\ recognition' = "active"
    /\ recognizing' = TRUE
    /\ alerts' = <<>>
    /\ UNCHANGED <<uncaught, chatVars, restOfVoice>>

\* recognition.onresult, while the object is still recognizing; it is not
\* continuous, so a final result is its last one.
RecResult(final) ==
    /\ recognition \in {"active", "stopping"}
    /\ final => RoomForSubmit(Cur)
    /\ SetChat([Cur EXCEPT !.input = "a",
                           !.autoSubmits = IF final THEN @ + 1 ELSE @])
    /\ recognition' = IF final THEN "ending" ELSE recognition
    /\ alerts' = <<>>
    /\ UNCHANGED <<recognizing, uncaught, restOfVoice>>

\* recognition.onnomatch
RecNoMatch ==
    /\ recognition \in {"active", "stopping"}
    /\ recognition' = "ending"
    /\ alerts' = << <<"No se pudo entender lo que dijiste">> >>
    /\ UNCHANGED <<recognizing, uncaught, chatVars, restOfVoice>>

\* recognition.onerror
RecError(code) ==
    /\ recognition \in {"starting", "active", "stopping"}
    /\ recognition' = "ending"
    /\ recognizing' = FALSE
    /\ alerts' = onerrorAlerts(code)
    /\ UNCHANGED <<uncaught, chatVars, restOfVoice>>

\* recognition.onend
RecEnd ==
    /\ recognition \in {"active", "stopping", "ending"}
    /\ recognition' = "idle"
    /\ recognizing' = FALSE
    /\ alerts' = <<>>
    /\ UNCHANGED <<uncaught, chatVars, restOfVoice>>

NextVoice ==
    \/ ChatBtnClick
    \/ GreetFire
    \/ VoiceBtnClick
    \/ RecStart
    \/ \E final \in BOOLEAN : RecResult(final)
    \/ RecNoMatch
    \/ \E code \in ErrorCodes : RecError(code)
    \/ RecEnd
    \/ AutoSubmitFire
    \/ \E o \in Outcomes : SendSettle(o)

(***************************************************************************)
(* chatbot.js: the content of one message.                                 *)
(*                                                                         *)
(* A string is the sequence of its lines (the pieces between "\n"), a line *)
(* the sequence of its symbols.  A symbol is a character, or a tag written *)
(* as one symbol: "<b>" in a text stands for the characters <, b, >.       *)
(***************************************************************************)

\* Lines a text is made of: blank, spaces, plain, bullet, bullet with
\* surrounding spaces, bullet mark with nothing after it, asterisk without
\* space, bold, a line with a tag.
Lines ==
    { <<>>,
      <<" ">>,
      <<"x">>,
      <<"*", " ", "x">>,
      <<" ", "*", " ", "x", " ">>,
      <<"*", " ">>,
      <<"*", "x">>,
      <<"*", "*", "x", "*", "*">>,
      <<"<b>", "x">> }

\* Symbols that an HTML parser reads as tags.
Tags == {"<b>", "<strong>", "</strong>", "<ul>", "</ul>", "<li>", "</li>",
         "<p>", "</p>"}

\* String.prototype.trim on one line
RECURSIVE TrimLeft(_)
TrimLeft(l) == IF l # <<>> /\ Head(l) = " " THEN TrimLeft(Tail(l)) ELSE l

RECURSIVE TrimRight(_)
TrimRight(l) ==
    IF l # <<>> /\ l[Len(l)] = " "
    THEN TrimRight(SubSeq(l, 1, Len(l) - 1))
    ELSE l

TrimLine(l) == TrimRight(TrimLeft(l))

\* line.startsWith(prefix)
startsWith(l, prefix) ==
    Len(l) >= Len(prefix) /\ SubSeq(l, 1, Len(prefix)) = prefix

\* line.substring(n)
substring(l, n) == SubSeq(l, n + 1, Len(l))

\* text.replace(/\*\*(.+?)\*\*/g, '<strong>$1</strong>') on one line ("."
\* matches no line break, so a match never spans lines): at the leftmost
\* "**" that is followed by at least one symbol and then "**", the shortest
\* such stretch is wrapped; the search goes on after the match.
RECURSIVE Bold(_)
Bold(l) ==
    IF Len(l) < 5 THEN l
    ELSE LET ends == {k \in 4..(Len(l) - 1) : l[k] = "*" /\ l[k + 1] = "*"}
         IN  IF l[1] = "*" /\ l[2] = "*" /\ ends # {}
             THEN LET k == CHOOSE e \in ends : \A f \in ends : e <= f
                  IN  <<"<strong>">> \o SubSeq(l, 3, k - 1) \o <<"</strong>">>
                      \o Bold(SubSeq(l, k + 2, Len(l)))
             ELSE <<Head(l)>> \o Bold(Tail(l))

\* Mutant of mdLines: a list still open after the last line is not closed.
RECURSIVE mdLines_NoFinalClose(_, _, _)
mdLines_NoFinalClose(lines, i, inList) ==
    IF i > Len(lines) THEN <<>>
    ELSE LET line == TrimLine(lines[i])
         IN  IF startsWith(line, <<"*", " ">>)
             THEN (IF ~inList THEN <<"<ul>">> ELSE <<>>)
                  \o <<"<li>">> \o TrimLine(substring(line, 2)) \o <<"</li>">>
                  \o mdLines_NoFinalClose(lines, i + 1, TRUE)
             ELSE (IF inList THEN <<"</ul>">> ELSE <<>>)
                  \o (IF line # <<>> THEN <<"<p>">> \o line \o <<"</p>">> ELSE <<>>)
                  \o mdLines_NoFinalClose(lines, i + 1, FALSE)

\* The loop of markdownToHtml from line i on, with the flag inList as the
\* loop left it, and the closing of a list left open after the loop: the
\* html appended from there.
RECURSIVE mdLines(_, _, _)
mdLines(lines, i, inList) ==
    IF i > Len(lines)
    THEN (IF inList THEN <<"</ul>">> ELSE <<>>)
    ELSE LET line == TrimLine(lines[i])
         IN  IF startsWith(line, <<"*", " ">>)
             THEN (IF ~inList THEN <<"<ul>">> ELSE <<>>)
                  \o <<"<li>">> \o TrimLine(substring(line, 2)) \o <<"</li>">>
                  \o mdLines(lines, i + 1, TRUE)
             ELSE (IF inList THEN <<"</ul>">> ELSE <<>>)
                  \o (IF line # <<>> THEN <<"<p>">> \o line \o <<"</p>">> ELSE <<>>)
                  \o mdLines(lines, i + 1, FALSE)

\* The text is the empty string.
IsEmptyString(t) == t = <<>> \/ t = << <<>> >>

\* markdownToHtml(text)
markdownToHtml(t) ==
    IF IsEmptyString(t) THEN <<>>
    ELSE mdLines([i \in 1..Len(t) |-> Bold(t[i])], 1, FALSE)

\* const htmlContent = sender === "bot" ? markdownToHtml(text) : text
\* (a user's text is one line: the trimmed value of the input field)
htmlContent(t, who) == IF who = "bot" THEN markdownToHtml(t) ELSE t[1]

\* element.innerHTML = s: the parser makes elements of the tags of s and
\* text of everything else.
innerHTML(s) ==
    [i \in 1..Len(s) |->
        IF s[i] \in Tags THEN [node |-> "tag", is |-> s[i]]
        ELSE [node |-> "text", is |-> s[i]]]

\* element.textContent = s: every symbol of s is text.
textContent(s) == [i \in 1..Len(s) |-> [node |-> "text", is |-> s[i]]]

\* No message has been made of the text.
StartRender ==
    /\ text = <<>>
    /\ sender = ""
    /\ html = <<>>
    /\ content = <<>>

\* The text grows by one line.
AddLine(l) ==
    /\ sender = ""
    /\ Len(text) < MaxLines
    /\ text' = Append(text, l)
    /\ UNCHANGED <<sender, html, content>>
    /\ UNCHANGED restOfRender

\* addMessage(text, "bot"), for a data.response text
RenderBot ==
    /\ sender = ""
    /\ sender' = "bot"
    /\ html' = htmlContent(text, "bot")
    /\ content' = innerHTML(html')
    /\ UNCHANGED text
    /\ UNCHANGED restOfRender

\* addMessage(text, "user"), for the text sendMessage has read from the
\* input field: one line, trimmed, not empty
RenderUser ==
    /\ sender = ""
    /\ Len(text) = 1
    /\ text[1] # <<>>
    /\ TrimLine(text[1]) = text[1]
    /\ sender' = "user"
    /\ html' = htmlContent(text, "user")
    /\ content' = innerHTML(html')
    /\ UNCHANGED text
    /\ UNCHANGED restOfRender

NextRender ==
    \/ \E l \in Lines : AddLine(l)
    \/ RenderBot
    \/ RenderUser

\* The router on any page, the chat widget untouched.
InitNav ==
    \E currentUrl \in Urls, rendered \in BOOLEAN :
        /\ StartNav(currentUrl, rendered)
        /\ StartChat(InitialChat)
        /\ StartVoice(TRUE)
        /\ StartRender

\* The chat widget on a page whose content the server rendered.
InitChat ==
    /\ StartNav("/a", TRUE)
    /\ StartChat(InitialChat)
    /\ StartVoice(TRUE)
    /\ StartRender

\* The chat widget in a browser with or without speech recognition.
InitVoice ==
    \E supported \in BOOLEAN :
        /\ StartNav("/a", TRUE)
        /\ StartChat(InitialChat)
        /\ StartVoice(supported)
        /\ StartRender

\* One text and the message made of it.
InitRender ==
    /\ StartNav("/a", TRUE)
    /\ StartChat(InitialChat)
    /\ StartVoice(TRUE)
    /\ StartRender

SpecNav == InitNav /\ [][NextNav]_vars

SpecChat == InitChat /\ [][NextChat]_vars

SpecVoice == InitVoice /\ [][NextVoice]_vars

SpecRender == InitRender /\ [][NextRender]_vars

(***************************************************************************)
(* Claims about spa.js, checked under SpecNav.                             *)
(***************************************************************************)

\* C1: the container is mutated only by the most recently issued load: what
\* it shows (placeholder, content or error panel) was always written by the
\* load issued last, never by the completion of an earlier-issued one.
C1_OnlyLatestLoadMutates == container.by = issued

\* C9: a load whose fetch fails (non-2xx or transport) pushes no history
\* entry, dispatches no spa:navigate, issues no further fetch, and its
\* completion leaves the error panel in the container.
C9_FailedLoadIsTerminal ==
    [][ (lastSettled' # lastSettled /\ ~lastSettled'.ok) =>
            /\ entries' = entries
            /\ histIdx' = histIdx
            /\ navEvents' = navEvents
            /\ issued' = issued
            /\ pending' = pending \ {lastSettled'.load}
            /\ container'.kind = "error"
            /\ container'.by = lastSettled'.load.id ]_vars

\* C9 witness: a link-click load (push requested) has failed.
C9_Witness ==
    /\ ~lastSettled.ok
    /\ lastSettled.load.src = "click"
    /\ lastSettled.load.push
    /\ container.kind = "error"

\* C10: a popstate event issues exactly one load, of the url recorded in the
\* entry navigated to or of the location path when the entry records none,
\* with push off; when that load settles, with success or failure, the
\* history entries and the current index are left as they are.
C10_PopstateLoadsEntryUrl ==
    [][ /\ (histIdx' # histIdx /\ entries' = entries /\ issued' # issued) =>
            \E r \in pending' :
                /\ pending' = pending \cup {r}
                /\ r \notin pending
                /\ r.url = (IF entries[histIdx'].url # NoUrl
                            THEN entries[histIdx'].url
                            ELSE entries[histIdx'].path)
                /\ r.url \in Urls
                /\ ~r.push
                /\ issued' = issued + 1
        /\ (lastSettled' # lastSettled /\ lastSettled'.load.src = "popstate") =>
            /\ entries' = entries
            /\ histIdx' = histIdx ]_vars

\* C10 witness: a popstate to an entry without a recorded url has loaded the
\* location path, and a popstate load has also failed before it.
C10_Witness ==
    /\ lastSettled.ok
    /\ lastSettled.load.src = "popstate"
    /\ entries[histIdx].url = NoUrl
    /\ container.kind = "content"
    /\ container.url = entries[histIdx].path
    /\ pending = {}

\* C11: immediately after each successful load of url the active marker is
\* on exactly the sidebar links whose href is the string url, and on no
\* other sidebar link.
C11_ActiveMarksLoadedUrl ==
    [][ (lastSettled' # lastSettled /\ lastSettled'.ok) =>
            \A h \in SidebarHrefs :
                (h \in activeNav') <=> (h = lastSettled'.load.url) ]_vars

\* C11 witness: a load of "/b" that was not the first load has succeeded;
\* of the sidebar links only the one to "/b" is active.
C11_Witness ==
    /\ lastSettled.ok
    /\ lastSettled.load.url = "/b"
    /\ lastSettled.load.id >= 2
    /\ activeNav = {"/b"}
    /\ container.url = "/b"

\* C12: after the initial bind and any number of content swaps, every
\* a[data-link] of the document has exactly one click listener, and one
\* click on a link with a target issues exactly one load, with push on.
C12_OneHandlerPerLink ==
    /\ [](\A l \in DOMAIN handlers : handlers[l] = 1)
    /\ [][ (\E r \in pending' \ pending : r.src = "click") =>
              /\ issued' = issued + 1
              /\ \E r \in pending' \ pending :
                    /\ pending' = pending \cup {r}
                    /\ r.push
                    /\ r.url \in Urls ]_vars

\* C12 witness: after two loads have swapped the content, with "/a" mounted
\* and re-bound, one click on a link to "/b" has issued the third load.
C12_Witness ==
    /\ issued = 3
    /\ \E r \in pending : r.id = 3 /\ r.src = "click" /\ r.url = "/b"
    /\ Len(entries) >= 2
    /\ entries[histIdx].url = "/a"
    /\ lastSettled.ok
    /\ lastSettled.load.url = "/a"

\* The initializer admin.js registers under a page name, if any.
RegisteredInit(page) ==
    CASE page = "dashboard" -> <<"initDashboard">>
      [] page = "corpus"    -> <<"initCorpus">>
      [] page = "pdf"       -> <<"initPDF">>
      [] page = "messages"  -> <<"initMessages">>
      [] page = "scraping"  -> <<"initScraping">>
      [] OTHER -> <<>>

\* C17: each successful load invokes exactly once the initializer registered
\* under the page name of the partial it mounted, and no other one; it
\* invokes none when the partial has no page marker or a name that is not
\* registered.
C17_OneInitializerPerLoad ==
    [][ (lastSettled' # lastSettled /\ lastSettled'.ok) =>
            /\ container'.url = lastSettled'.load.url
            /\ inits' = RegisteredInit(PageName(container'.url))
            /\ Len(inits') <= 1 ]_vars

\* C17 witness: starting on the page without marker, a load of the page
\* with an unknown name and then a load of the registered page have been
\* pushed; the last load to succeed mounted the registered page.
C17_Witness ==
    /\ lastSettled.ok
    /\ lastSettled.load.id = 3
    /\ container.url = "/a"
    /\ inits = <<"initDashboard">>
    /\ Len(entries) = 3
    /\ entries[1].url = "/c"
    /\ entries[2].url = "/b"

\* C20: when a spa:navigate event carrying url is dispatched, its listeners
\* find the body fetched for url in the container, the history entry for
\* url pushed and current if the load asked for a push, the active marker
\* on the sidebar links to url only, one click listener on every
\* a[data-link] of the document including those of the new content, and
\* the resize timer of this load not yet scheduled; a resize is broadcast
\* only by a timer that a dispatched event has left behind.
C20_EventAfterPageIsReady ==
    /\ [][ navEvents' # navEvents =>
              LET e == spaNavigate'
                  r == lastSettled'.load
              IN  /\ navEvents' = navEvents + 1
                  /\ lastSettled'.ok
                  /\ e.url = r.url
                  /\ e.container = [kind |-> "content", url |-> r.url, by |-> r.id]
                  /\ r.push => /\ e.entry = [url |-> r.url, path |-> r.url]
                               /\ e.histIdx = histIdx + 1
                  /\ ~r.push => /\ e.entry = entries[histIdx]
                                /\ e.histIdx = histIdx
                  /\ e.activeNav = {h \in SidebarHrefs : h = r.url}
                  /\ DOMAIN e.handlers =
                        SidebarLinks \cup {ContentLink(h) : h \in PartialLinks(r.url)}
                  /\ \A l \in DOMAIN e.handlers : e.handlers[l] = 1
                  /\ ~e.resizeScheduled
                  /\ resizeTimers' = resizeTimers + 1 ]_vars
    /\ [][ resizeTimers' < resizeTimers => navEvents' = navEvents ]_vars
    /\ [](resizeTimers <= navEvents)

\* C20 witness: the event of a pushing load of "/a" was dispatched after an
\* earlier load; its listeners saw the new entry, the new content and its
\* bound link; the resize of that load has been broadcast since.
C20_Witness ==
    /\ spaNavigate # NoEvent
    /\ spaNavigate.url = "/a"
    /\ lastSettled.load.push
    /\ lastSettled.load.id >= 2
    /\ spaNavigate.entry.url = "/a"
    /\ ContentLink("/b") \in DOMAIN spaNavigate.handlers
    /\ navEvents >= 2
    /\ resizeTimers = 0

\* C21: the router creates a history entry exactly when a load started by a
\* link click completes with success, and makes it current; the page starts
\* with its one entry recording the url (replaceState); a load that fails,
\* the initial load and a popstate load leave the entries as they are, and
\* so does every other step of the router.
C21_EntriesCountClickLoads ==
    /\ (Len(entries) = 1 /\ histIdx = 1 /\ entries[1].url \in Urls)
    /\ [][ /\ lastSettled' # lastSettled =>
                IF lastSettled'.ok /\ lastSettled'.load.src = "click"
                THEN /\ entries' = Append(SubSeq(entries, 1, histIdx),
                                          [url |-> lastSettled'.load.url,
                                           path |-> lastSettled'.load.url])
                     /\ histIdx' = histIdx + 1
                ELSE entries' = entries /\ histIdx' = histIdx
           /\ (issued' # issued \/ resizeTimers' < resizeTimers) =>
                entries' = entries ]_vars

\* C21 witness: the initial load, one link-click load and one popstate load
\* have all succeeded; one entry was added to the initial one.
C21_Witness ==
    /\ issued = 3
    /\ navEvents = 3
    /\ pending = {}
    /\ Len(entries) = 2
    /\ histIdx = 1
    /\ \A i \in 1..2 : entries[i].url # NoUrl
    /\ lastSettled.load.src = "popstate"
    /\ lastSettled.ok

\* C24: whenever no fetch is in flight and the load that completed last has
\* succeeded, the container shows the content of the current history
\* entry's url (its path, if it records none) and the active marker is on
\* the sidebar links to that url only.
C24_ContentMatchesHistory ==
    (pending = {} /\ lastSettled.ok /\ lastSettled.load.id > 0) =>
        LET u == IF entries[histIdx].url # NoUrl THEN entries[histIdx].url
                 ELSE entries[histIdx].path
        IN  /\ container.kind = "content"
            /\ container.url = u
            /\ activeNav = {h \in SidebarHrefs : h = u}

(***************************************************************************)
(* Claims about chatbot.js, checked under SpecChat.                        *)
(***************************************************************************)

Farewells(ms) == {i \in 1..Len(ms) : ms[i] = "farewell"}

\* C2: when the chat is open and a full inactivity window has passed with no
\* reset event, the timeout sequence runs (the inactivity timer is due, or
\* the sequence is already under way), and the sequence is ordered: while
\* its delay or its clear request is pending the farewell has been appended
\* and greeted has not yet been reset by it (the session is still inactive);
\* the clear request is issued only after the delay.
C2_IdleWindowRunsTimeout ==
    /\ (chatOpen /\ idle = INACTIVITY_TIMEOUT) =>
            \/ ~sessionActive
            \/ \E id \in DOMAIN timers : timers[id] = 0
    /\ (farewellDelays + clears > 0) =>
            (~sessionActive /\ Farewells(messages) # {})

\* C3: a click on the chat button that opens the box while the session is
\* active leaves sessionTimeout referring to a pending inactivity timer.
C3_OpenLeavesTimerPending ==
    [][ (~chatOpen /\ chatOpen' /\ sessionActive) =>
            sessionTimeout' \in DOMAIN timers' ]_vars

\* C4: whenever the chat box is closed no inactivity timer is pending.
C4_ClosedHasNoTimer == ~chatOpen => DOMAIN timers = {}

\* C5: at most one /send-message/ request is in flight at any time.
C5_AtMostOneSendInFlight == sends <= 1

\* C6: when clearConversation completes with success the transcript is
\* exactly the farewell message.
C6_ClearKeepsOnlyFarewell ==
    [][ ClearSettle("ok") => messages' = <<"farewell">> ]_vars

\* C7: at most one greeting is scheduled between page load or a completed
\* timeout sequence and the next completed timeout sequence; a click that
\* opens the box schedules a greeting exactly when none has been scheduled
\* in that period; every scheduled greeting is appended when its timer fires.
C7_OneGreetingPerSession ==
    [][ /\ greets' <= 1
        /\ (~chatOpen /\ chatOpen') =>
              IF greets = 0
              THEN greetTimers' = greetTimers + 1 /\ greets' = 1
              ELSE greetTimers' = greetTimers /\ greets' = greets
        /\ (chatOpen' = chatOpen /\ clears' = clears) =>
              (greetTimers' <= greetTimers /\ greets' = greets)
        /\ greetTimers' < greetTimers =>
              /\ greetTimers' = greetTimers - 1
              /\ messages' = Append(messages, "greeting") ]_vars

\* C7 witness: after a completed timeout sequence the box was opened again
\* and a fresh greeting was appended after the farewell.
C7_Witness ==
    /\ greets = 1
    /\ greetTimers = 0
    /\ \E i, j \in 1..Len(messages) :
          i < j /\ messages[i] = "farewell" /\ messages[j] = "greeting"

\* C8: at most one inactivity timer is pending, it is the one sessionTimeout
\* refers to, and between two resets of the timer the timeout fires at most
\* once.
C8_OneTimerPending ==
    /\ Cardinality(DOMAIN timers) <= 1
    /\ DOMAIN timers \subseteq {sessionTimeout}
    /\ fires <= 1

\* C8 witness: the bot's answer restarted a timer that had already run for a
\* minute after the submit; one timer is pending, with the full window.
C8_Witness ==
    /\ idle = 1
    /\ \E i \in 1..Len(messages) : messages[i] = "reply"
    /\ DOMAIN timers = {sessionTimeout}
    /\ timers[sessionTimeout] = INACTIVITY_TIMEOUT

\* A step of one of the three ways to submit the input: the send button,
\* the Enter key, the auto-submit timer of a final voice result.
SubmitStep == SendBtnClick \/ EnterKey \/ AutoSubmitFire

\* C13: a submit while the input is empty or holds only whitespace appends
\* nothing to the transcript (no message, no typing indicator) and issues
\* no request, whatever the state of the session.
C13_EmptySubmitDoesNothing ==
    [][ (SubmitStep /\ input \in {"", " "}) =>
            (messages' = messages /\ sends' = sends) ]_vars

\* C13 witness: Enter was pressed on a whitespace-only input one minute into
\* the inactivity window (the keypress is the only event that counts as
\* activity without restarting the timer); nothing is in flight.
C13_Witness ==
    /\ chatOpen
    /\ input = " "
    /\ idle = 0
    /\ sessionTimeout \in DOMAIN timers
    /\ timers[sessionTimeout] = 1
    /\ sends = 0
    /\ autoSubmits = 0

\* Entries of ms that are of one of the kinds ks.
CountOf(ms, ks) == Cardinality({i \in 1..Len(ms) : ms[i] \in ks})

\* C14: every non-empty submit appends exactly one user message (followed
\* by the typing indicator) and issues one request; when a request settles
\* exactly one bot message is appended, at the end: the reply on success,
\* the error message on a backend-reported failure, the connection-error
\* message on a transport or parse failure, and no user message is added or
\* removed.  Submits behave so in every state, so also after each outcome.
C14_OneUserOneBotMessage ==
    [][ /\ (SubmitStep /\ input = "a") =>
              /\ messages' = messages \o <<"user", "typing">>
              /\ sends' = sends + 1
              /\ input' = ""
        /\ \A o \in Outcomes : SendSettle(o) =>
              /\ Len(messages') >= 1
              /\ messages'[Len(messages')] =
                    (IF o = "ok" THEN "reply"
                     ELSE IF o = "error" THEN "error" ELSE "connerror")
              /\ CountOf(messages', {"reply", "error", "connerror"})
                    = CountOf(messages, {"reply", "error", "connerror"}) + 1
              /\ CountOf(messages', {"user", "greeting", "farewell"})
                    = CountOf(messages, {"user", "greeting", "farewell"})
              /\ CountOf(messages', {"typing"}) <= CountOf(messages, {"typing"})
              /\ sends' = sends - 1 ]_vars

\* C14 witness: a submit was answered by a transport failure; the transcript
\* holds the user message and the connection-error message, nothing is in
\* flight and the user has typed the next text.
C14_Witness ==
    /\ messages = <<"greeting", "user", "connerror">>
    /\ sends = 0
    /\ input = "a"
    /\ chatOpen

\* C19: when the clear request of the timeout sequence settles, with
\* success, with success = false or with a transport failure, the session
\* is active again and greeted is false; unless the clear succeeded the
\* transcript is what it was.
C19_TimeoutEndsInReset ==
    [][ /\ clears' < clears => (sessionActive' /\ ~greeted' /\ clears' = clears - 1)
        /\ \A o \in {"error", "throw"} : ClearSettle(o) => messages' = messages
      ]_vars

\* C19 witness: a timeout sequence has ended without a successful clear: the
\* greeting and the farewell are both still in the transcript, the session
\* is active and not greeted.
C19_Witness ==
    /\ clears = 0
    /\ farewellDelays = 0
    /\ sessionActive
    /\ ~greeted
    /\ Len(messages) >= 2
    /\ messages[1] = "greeting"
    /\ messages[Len(messages)] = "farewell"

\* C23: while a timeout sequence is in progress (sessionActive is false,
\* from the firing of the timer until the clear request settles) no
\* inactivity timer is pending, whatever reset events occur meanwhile, and
\* at most one timeout sequence is in progress.
C23_NoTimerDuringTimeout ==
    /\ ~sessionActive => DOMAIN timers = {}
    /\ ~sessionActive <=> farewellDelays + clears > 0
    /\ farewellDelays + clears <= 1

\* C23 witness: during a timeout sequence (the clear request is in flight)
\* the user submitted a message and the bot's answer arrived; no timer is
\* pending.
C23_Witness ==
    /\ ~sessionActive
    /\ clears = 1
    /\ idle = 0
    /\ sends = 0
    /\ Len(messages) >= 3
    /\ messages[Len(messages)] = "reply"
    /\ messages[Len(messages) - 1] = "user"
    /\ messages[Len(messages) - 2] = "farewell"
    /\ DOMAIN timers = {}

\* C25: the transcript never holds more typing indicators than there are
\* /send-message/ requests in flight; with none in flight it holds none.
C25_TypingAtMostSends ==
    /\ Typing(messages) <= sends
    /\ sends = 0 => \A i \in 1..Len(messages) : messages[i] # "typing"

\* C25 witness: a session clear has removed the typing indicator of a send
\* that is still in flight; the timeout sequence is over.
C25_Witness ==
    /\ sends >= 1
    /\ Typing(messages) < sends
    /\ clears = 0
    /\ sessionActive

(***************************************************************************)
(* Claims about voice input, checked under SpecVoice.                      *)
(***************************************************************************)

\* The messages of the error-code table, by code; any other code but
\* "aborted" gets the generic message that names the code.
ErrorTable(code) ==
    CASE code = "no-speech" -> <<"No se detecto ningun audio">>
      [] code = "audio-capture" -> <<"No se detecto microfono">>
      [] code = "not-allowed" -> <<"Permiso denegado">>
      [] code = "network" -> <<"Error de red">>
      [] OTHER -> <<"Error: ", code>>

\* C18: a recognition error with code "aborted" shows no alert; an error
\* with any other code shows exactly one alert, with the message the table
\* has for the code; after the handler of any error recognizing is false.
C18_ErrorAlerts ==
    [][ \A code \in ErrorCodes : RecError(code) =>
            /\ ~recognizing'
            /\ code = "aborted" => alerts' = <<>>
            /\ code # "aborted" => alerts' = <<ErrorTable(code)>> ]_vars

\* C18 witness: while the recognition was active and an interim transcript
\* was in the input field, an error with a code the table names was
\* delivered: one alert, recognizing false, onend still to come.
C18_Witness ==
    /\ recognition = "ending"
    /\ ~recognizing
    /\ alerts = << <<"Error de red">> >>
    /\ input = "a"
    /\ autoSubmits = 0
    /\ sends = 0
    /\ Len(messages) = 1

\* C22: however clicks on the voice button interleave with the start, end
\* and error callbacks, no exception leaves a handler; a click made while a
\* recognition session is started calls stop if recognizing is true, and
\* otherwise makes a start call that fails and is reported by one alert,
\* the session being left as it is; when no session is started recognizing
\* is false.
C22_ClicksNeverThrow ==
    /\ [](~uncaught)
    /\ [](recognition \in {"idle", "none"} => ~recognizing)
    /\ [][ (VoiceBtnClick
            /\ recognition \in {"starting", "active", "stopping", "ending"}) =>
              /\ recognizing' = recognizing
              /\ IF recognizing
                 THEN /\ recognition' =
                           (IF recognition = "active" THEN "stopping"
                            ELSE recognition)
                      /\ alerts' = <<>>
                 ELSE /\ recognition' = recognition
                      /\ alerts' =
                           << <<"No se pudo iniciar el reconocimiento de voz">> >>
       ]_vars
    /\ [][ (recognition # "idle" /\ recognition' = "idle") => ~recognizing' ]_vars

\* C22 witness: after an error the flag was false while onend was still to
\* come; a click then made a start call that failed and was reported.
C22_Witness ==
    /\ recognition = "ending"
    /\ ~recognizing
    /\ alerts = << <<"No se pudo iniciar el reconocimiento de voz">> >>
    /\ ~uncaught

(***************************************************************************)
(* Claims about the content of a message, checked under SpecRender.        *)
(***************************************************************************)

\* C15: the text of a user's message becomes text of the transcript, symbol
\* by symbol, and none of it becomes an element; only a bot's text is passed
\* through markdownToHtml and parsed as HTML.
C15_UserTextIsLiteral ==
    /\ sender = "user" =>
          /\ html = text[1]
          /\ content = textContent(text[1])
    /\ sender = "bot" =>
          /\ html = markdownToHtml(text)
          /\ content = innerHTML(html)

\* A bullet line: its text, surrounding whitespace removed, begins with an
\* asterisk and a space.
IsBulletLine(l) == startsWith(TrimLine(l), <<"*", " ">>)

\* Last line of the maximal run of bullet lines that line i of ls is in.
RunEnd(ls, i) ==
    CHOOSE j \in i..Len(ls) :
        /\ \A k \in i..j : IsBulletLine(ls[k])
        /\ j = Len(ls) \/ ~IsBulletLine(ls[j + 1])

\* The items of the bullet lines i..j of ls, in order.
RECURSIVE ListItems(_, _, _)
ListItems(ls, i, j) ==
    IF i > j THEN <<>>
    ELSE <<"<li>">> \o TrimLine(substring(TrimLine(Bold(ls[i])), 2)) \o <<"</li>">>
         \o ListItems(ls, i + 1, j)

\* The blocks of lines i.. of ls: one list per maximal run of bullet lines,
\* one paragraph per other line that is not blank.
RECURSIVE BlocksFrom(_, _)
BlocksFrom(ls, i) ==
    IF i > Len(ls) THEN <<>>
    ELSE IF IsBulletLine(ls[i])
    THEN <<"<ul>">> \o ListItems(ls, i, RunEnd(ls, i)) \o <<"</ul>">>
         \o BlocksFrom(ls, RunEnd(ls, i) + 1)
    ELSE (IF TrimLine(ls[i]) = <<>> THEN <<>>
          ELSE <<"<p>">> \o TrimLine(Bold(ls[i])) \o <<"</p>">>)
         \o BlocksFrom(ls, i + 1)

\* Occurrences of symbol x in s.
Occurrences(s, x) == Cardinality({i \in 1..Len(s) : s[i] = x})

\* C16: for a text given as its lines, markdownToHtml emits one list block
\* per maximal run of consecutive bullet lines, with one item per bullet
\* line in order, one paragraph per other non-blank line, in the order of
\* the lines, and closes every list it opens, also the one still open at
\* the end of the text.
C16_OneListPerBulletRun ==
    sender = "bot" =>
        /\ html = BlocksFrom(text, 1)
        /\ Occurrences(html, "<ul>") = Occurrences(html, "</ul>")
        /\ Occurrences(html, "<ul>") =
              Cardinality({i \in 1..Len(text) :
                              /\ IsBulletLine(text[i])
                              /\ i = 1 \/ ~IsBulletLine(text[i - 1])})
        /\ Occurrences(html, "<li>") =
              Cardinality({i \in 1..Len(text) : IsBulletLine(text[i])})

\* C16 witness: the text "x", "* x", "* x", "x" gave a paragraph, one list
\* of two items, a paragraph.
C16_Witness ==
    /\ sender = "bot"
    /\ text = << <<"x">>, <<"*", " ", "x">>, <<"*", " ", "x">>, <<"x">> >>
    /\ html = << "<p>", "x", "</p>",
                 "<ul>", "<li>", "x", "</li>", "<li>", "x", "</li>", "</ul>",
                 "<p>", "x", "</p>" >>

====
